---- MODULE Spec2Model ----
(***************************************************************************)
(* OrchestRate: the orchestrator built by createOrchestrator               *)
(* (src/src/utils/OrchestRate.tsx).  Callers register effects with a       *)
(* priority and pre/post delays, cancel them, and call execute(); a pass   *)
(* runs the stored items in priority order, one at a time, and overlapping *)
(* execute() calls are pushed on executionQueue.                           *)
(*                                                                         *)
(* JavaScript is single-threaded: every action below is one run-to-        *)
(* completion step, from a call or a resumption up to the next await.      *)
(***************************************************************************)
EXTENDS Integers, Sequences, FiniteSets, TLC

\* ---------------------------------------------------------------- bounds
MaxRegs == 3        \* orchestrate() calls per behaviour of Spec
MaxDelayRegs == 2   \* orchestrate() calls per behaviour of DelaySpec
MaxCalls == 3       \* execute() calls made by callers per behaviour
Delay == 1          \* length, in ticks, of a non-zero preDelay or postDelay

\* The ids callers use.  Ids are interchangeable, so callers bring them into
\* use in this order.
IdOrder == <<"a", "b", "c">>
Ids == {IdOrder[k] : k \in 1..Len(IdOrder)}
\* the priorities callers pass in Spec, where no item has a delay
Prios == {1, 2, 3}
\* the delays callers pass in DelaySpec, where every item has the default
\* priority
Delays == {0, Delay}
Calls == 1..MaxCalls

VARIABLES
  queue,           \* the Set<OrchestrationItem>, in insertion order
  isPerforming,    \* the busy flag
  executionQueue,  \* deferred continuations, by the invocation they resolve
  passes,          \* the execute() invocations suspended inside the loop
  finished,        \* the invocation that left the loop last, if none entered since
  callState,       \* state of the promise returned to each caller
  callResult,      \* value that promise resolved with
  microtasks,      \* promise reactions not yet run, in order
  chains,          \* invocations that returned nextExecution()
  regCount,        \* orchestrate() calls so far
  usedIds,         \* ids passed to orchestrate() so far
  admittedIds      \* per caller: the ids stored when its pass was admitted

vars == <<queue, isPerforming, executionQueue, passes, finished, callState,
          callResult, microtasks, chains, regCount, usedIds, admittedIds>>

\* ------------------------------------------------------------- data model
Absent == [absent |-> TRUE]
EmptyResults == [i \in Ids |-> Absent]
Keys(r) == {i \in Ids : r[i] # Absent}

NoRunner == [call |-> 0, depth |-> 0]
TopLevel(c) == [call |-> c, depth |-> 0]
\* the execute() invocation made by the continuation that resolves v
Nested(v) == [call |-> v.call, depth |-> v.depth + 1]
Parent(v) == [call |-> v.call, depth |-> v.depth - 1]

Event(e, i) == [ev |-> e, id |-> i]

\* The frame of an execute() invocation that entered the loop: who runs it,
\* where it is suspended, its locals sortedQueue and results, the position
\* of the for..of loop, the ticks left on its pending setTimeout, and the
\* events of the pass so far.
NoPass ==
  [runner |-> NoRunner, pc |-> "none", sortedQueue |-> <<>>, idx |-> 1,
   results |-> EmptyResults, timer |-> 0, trace |-> <<>>]

\* An effect is a closure supplied by the caller; the model names it by the
\* orchestrate() call that brought it.  Invoked, it returns that name as its
\* value, or fails with new Error(<that name>).
ThrownBy(effect) == [isError |-> TRUE, message |-> effect]

\* error instanceof Error ? error.message : String(error)
ErrorMessage(error) ==
  IF error.isError THEN error.message ELSE ToString(error.message)

\* what lines 158 and 167 store in results[item.id]
Fulfilled(effect) == [value |-> effect]
Failed(effect) == [error |-> ErrorMessage(ThrownBy(effect))]

\* the comparator with its operands swapped: an ascending sort
compareAscending(a, b) == a.priority - b.priority

\* (a, b) => b.priority - a.priority
compare(a, b) == b.priority - a.priority

\* Array.prototype.sort is stable: x goes before the first element that the
\* comparator puts strictly after it, behind every element it ties with.
RECURSIVE Insert(_, _)
Insert(s, x) ==
  IF s = <<>> THEN <<x>>
  ELSE IF compare(Head(s), x) > 0 THEN <<x>> \o s
  ELSE <<Head(s)>> \o Insert(Tail(s), x)

RECURSIVE SortByPriority(_)
SortByPriority(s) ==
  IF s = <<>> THEN <<>>
  ELSE Insert(SortByPriority(SubSeq(s, 1, Len(s) - 1)), s[Len(s)])

\* a lookup of the new item itself, which no Set holds yet
FindItself(q, id) == 0

\* [...queue].find((i) => i.id === id)
Find(q, id) ==
  IF \E k \in 1..Len(q) : q[k].id = id
  THEN CHOOSE k \in 1..Len(q) : q[k].id = id /\ \A j \in 1..(k - 1) : q[j].id # id
  ELSE 0

\* a delete that is handed something the Set does not hold
DeleteNothing(q, k) == q

\* Set.prototype.delete of the element at position k (0: not in the set)
Delete(q, k) ==
  IF k = 0 THEN q ELSE SubSeq(q, 1, k - 1) \o SubSeq(q, k + 1, Len(q))

StoredIds(q) == {q[k].id : k \in 1..Len(q)}

\* ------------------------------------------------------- the state, as a record
\* The synchronous part of a call can run through several functions
\* (execute -> loop -> completion -> nextExecution -> execute); the operators
\* below compute it on a record of the variables, with the frame of the
\* invocation that is running in the field frame.
Cur ==
  [queue |-> queue, isPerforming |-> isPerforming,
   executionQueue |-> executionQueue, passes |-> passes,
   finished |-> finished, callState |-> callState,
   callResult |-> callResult, microtasks |-> microtasks, chains |-> chains,
   admittedIds |-> admittedIds, frame |-> NoPass]

\* the state in which the suspended invocation f is running again
Resumed(f) == [Cur EXCEPT !.passes = @ \ {f}, !.frame = f]

Becomes(S) ==
  /\ queue' = S.queue
  /\ isPerforming' = S.isPerforming
  /\ executionQueue' = S.executionQueue
  /\ passes' = S.passes
  /\ finished' = S.finished
  /\ callState' = S.callState
  /\ callResult' = S.callResult
  /\ microtasks' = S.microtasks
  /\ chains' = S.chains
  /\ admittedIds' = S.admittedIds

\* the running invocation reaches an await at pc: its frame is kept
Suspend(S, at, ticks, event) ==
  [S EXCEPT !.passes = @ \cup {[S.frame EXCEPT !.pc = at, !.timer = ticks,
                                                !.trace = Append(@, event)]},
            !.frame = NoPass]

\* The promise of invocation v settles with value r.  A caller's promise
\* becomes resolved; the promise of a nested execute() is awaited by the
\* continuation that made the call (line 124), which resumes in a microtask.
Settle(S, v, r) ==
  IF v.depth = 0
  THEN [S EXCEPT !.callState[v.call] = "resolved", !.callResult[v.call] = r]
  ELSE [S EXCEPT !.microtasks =
          Append(@, [kind |-> "resume", inv |-> Parent(v), value |-> r])]

\* callState of a caller's invocation v becomes st
Mark(S, v, st) ==
  IF v.depth = 0 THEN [S EXCEPT !.callState[v.call] = st] ELSE S

RECURSIVE Execute(_, _), Admit(_, _), RunLoop(_), InvokeEffect(_), Catch(_, _),
          Store(_), AfterEffect(_), Complete(_)

\* Each operator yields the set of states in which the synchronous run can
\* end: an invoked effect may throw or not.  Where the run goes on in another
\* operator, the state handed over is worked out once, as T.

\* lines 136-147: invocation v is admitted: the flag is set, the store is
\* sorted into the local sortedQueue, and the loop is entered
Admit(S, v) ==
  UNION {RunLoop(T) : T \in {Mark([S EXCEPT
    !.isPerforming = TRUE,
    !.finished = NoPass,
    !.frame = [runner |-> v, pc |-> "loop",
               sortedQueue |-> SortByPriority(S.queue), idx |-> 1,
               results |-> EmptyResults, timer |-> 0, trace |-> <<>>],
    !.admittedIds = IF v.depth = 0
                    THEN [@ EXCEPT ![v.call] = StoredIds(S.queue)] ELSE @],
    v, "running")}}

\* execute() without the test of line 120: a call made while a pass is
\* running starts another one
ExecuteWhileBusy(S, v) ==
  IF Len(S.queue) = 0 THEN {Settle(S, v, EmptyResults)} ELSE Admit(S, v)

\* execute() without the test of line 131: a call on an empty store runs a
\* pass over nothing, end of pass included
ExecuteEmptyStore(S, v) ==
  IF S.isPerforming
  THEN {Mark([S EXCEPT !.executionQueue = Append(@, v)], v, "deferred")}
  ELSE Admit(S, v)

\* lines 119-134: execute(), called as invocation v
Execute(S, v) ==
  IF S.isPerforming
  THEN {Mark([S EXCEPT !.executionQueue = Append(@, v)], v, "deferred")}
  ELSE IF Len(S.queue) = 0
  THEN {Settle(S, v, EmptyResults)}
  ELSE Admit(S, v)

\* lines 147-154: top of the loop body for sortedQueue[idx]
RunLoop(S) ==
  IF S.frame.idx > Len(S.frame.sortedQueue) THEN Complete(S)
  ELSE LET item == S.frame.sortedQueue[S.frame.idx] IN
       IF item.preDelay # 0
       THEN {Suspend(S, "pre", item.preDelay, Event("preDelay", item.id))}
       ELSE InvokeEffect(S)

\* the loop body without its try/catch: the failure leaves the loop and
\* execute(), whose promise rejects
Rethrow(S, how) ==
  {Mark([S EXCEPT !.finished = [S.frame EXCEPT !.pc = "aborted"],
                  !.frame = NoPass],
        S.frame.runner, "rejected")}

\* lines 160-170: the catch block stores the failure of the current item
\* under its id, `how` telling a synchronous throw from a rejection, and
\* the pass goes on
Catch(S, how) ==
  LET item == S.frame.sortedQueue[S.frame.idx] IN
  UNION {AfterEffect(T) : T \in {[S EXCEPT
    !.frame.results[item.id] = Failed(item.effect),
    !.frame.trace = Append(@, Event(how, item.id))]}}

\* lines 156-159: item.effect() is called; a synchronous throw goes to the
\* catch block at once, any other outcome is awaited (line 157)
InvokeEffect(S) ==
  LET item == S.frame.sortedQueue[S.frame.idx] IN
  {Suspend(S, "effect", 0, Event("invoke", item.id))}
  \cup UNION {Catch(T, "threw") : T \in
       {[S EXCEPT !.frame.trace = Append(@, Event("invoke", item.id))]}}

\* line 157 without line 158: the value the effect returned is dropped
Discard(S) ==
  LET item == S.frame.sortedQueue[S.frame.idx] IN
  UNION {AfterEffect(T) : T \in {[S EXCEPT
    !.frame.trace = Append(@, Event("fulfilled", item.id))]}}

\* lines 157-159, resumed: the awaited promise fulfilled and the value is
\* stored under the id of the current item
Store(S) ==
  LET item == S.frame.sortedQueue[S.frame.idx] IN
  UNION {AfterEffect(T) : T \in {[S EXCEPT
    !.frame.results[item.id] = Fulfilled(item.effect),
    !.frame.trace = Append(@, Event("fulfilled", item.id))]}}

\* the loop body without lines 172-175: no wait after the effect
AfterEffectAtOnce(S) ==
  UNION {RunLoop(T) : T \in {[S EXCEPT !.frame.idx = @ + 1]}}

\* lines 172-179: the postDelay, then the next iteration
AfterEffect(S) ==
  LET item == S.frame.sortedQueue[S.frame.idx] IN
  IF item.postDelay # 0
  THEN {Suspend(S, "post", item.postDelay, Event("postDelay", item.id))}
  ELSE UNION {RunLoop(T) : T \in {[S EXCEPT !.frame.idx = @ + 1]}}

\* a clearing that removes the items the pass ran and keeps what was
\* registered meanwhile
ClearedSnapshot(S) ==
  [S EXCEPT !.queue = SelectSeq(@, LAMBDA it :
                        \A k \in 1..Len(S.frame.sortedQueue) :
                           S.frame.sortedQueue[k] # it),
            !.isPerforming = FALSE]

\* line 182 without line 181: the store is left as it is
FlagDropped(S) == [S EXCEPT !.isPerforming = FALSE]

\* line 181 without line 182: the flag is left as it is
ClearedStore(S) == [S EXCEPT !.queue = <<>>]

\* lines 181-182: queue.clear(); isPerforming = false
Cleared(S) == [S EXCEPT !.queue = <<>>, !.isPerforming = FALSE]

\* lines 181-192: the end of the pass
Complete(S) ==
  LET me == S.frame.runner
      done == [Cleared(S) EXCEPT !.finished = [S.frame EXCEPT !.pc = "done"],
                                 !.frame = NoPass]
  IN IF Len(done.executionQueue) > 0
     THEN LET nextExecution == Head(done.executionQueue) IN
          \* return nextExecution(): the continuation calls execute() at once
          \* and the promise of this invocation follows the continuation's
          UNION {Execute(T, Nested(nextExecution)) : T \in
            {Mark([done EXCEPT
                     !.executionQueue = Tail(@),
                     !.chains = @ \cup {[cont |-> nextExecution,
                                         waiter |-> me]}],
                  me, "chained")}}
     ELSE {Settle(done, me, S.frame.results)}

\* ---------------------------------------------------------------- actions
Init ==
  /\ queue = <<>>
  /\ isPerforming = FALSE
  /\ executionQueue = <<>>
  /\ passes = {}
  /\ finished = NoPass
  /\ callState = [c \in Calls |-> "unissued"]
  /\ callResult = [c \in Calls |-> EmptyResults]
  /\ microtasks = <<>>
  /\ chains = {}
  /\ regCount = 0
  /\ usedIds = {}
  /\ admittedIds = [c \in Calls |-> {}]

\* an orchestrate() that puts the new definition where the old one was
orchestrateInPlace(id, priority, preDelay, postDelay) ==
  /\ LET item == [id |-> id,
                  effect |-> regCount + 1,
                  priority |-> priority,
                  preDelay |-> preDelay,
                  postDelay |-> postDelay]
         k == Find(queue, id)
     IN queue' = IF k = 0 THEN Append(queue, item)
                 ELSE [queue EXCEPT ![k] = item]
  /\ regCount' = regCount + 1
  /\ usedIds' = usedIds \cup {id}
  /\ UNCHANGED <<isPerforming, executionQueue, passes, finished, callState,
                 callResult, microtasks, chains, admittedIds>>

\* lines 87-109.  The effect passed in is a new closure, named by the number
\* of the orchestrate() call that brings it.
orchestrate(id, priority, preDelay, postDelay) ==
  /\ LET item == [id |-> id,
                  effect |-> regCount + 1,
                  priority |-> priority,
                  preDelay |-> preDelay,
                  postDelay |-> postDelay]
     IN queue' = Append(Delete(queue, Find(queue, id)), item)
  /\ regCount' = regCount + 1
  /\ usedIds' = usedIds \cup {id}
  /\ UNCHANGED <<isPerforming, executionQueue, passes, finished, callState,
                 callResult, microtasks, chains, admittedIds>>

\* a cancel that reaches into the running pass: the item is taken out of
\* its sortedQueue as well
cancelRunning(id) ==
  /\ queue' = Delete(queue, Find(queue, id))
  /\ passes' = {[f EXCEPT !.sortedQueue = Delete(@, Find(@, id)),
                          !.idx = IF Find(f.sortedQueue, id) \in 1..(@ - 1)
                                  THEN @ - 1 ELSE @] : f \in passes}
  /\ UNCHANGED <<isPerforming, executionQueue, finished, callState,
                 callResult, microtasks, chains, regCount, usedIds,
                 admittedIds>>

\* a cancel that empties the store: queue.clear() for queue.delete(item)
cancelAll(id) ==
  /\ queue' = <<>>
  /\ UNCHANGED <<isPerforming, executionQueue, passes, finished, callState,
                 callResult, microtasks, chains, regCount, usedIds,
                 admittedIds>>

\* lines 111-117
cancel(id) ==
  /\ queue' = Delete(queue, Find(queue, id))
  /\ UNCHANGED <<isPerforming, executionQueue, passes, finished, callState,
                 callResult, microtasks, chains, regCount, usedIds,
                 admittedIds>>

\* lines 119-193: a caller calls execute(); the call runs to its first await
execute(c) ==
  /\ callState[c] = "unissued"
  /\ \A b \in Calls : b < c => callState[b] # "unissued"
  /\ \E T \in Execute(Cur, TopLevel(c)) : Becomes(T)
  /\ UNCHANGED <<regCount, usedIds>>

\* time passes while a setTimeout of a pass is pending (lines 153, 174)
Tick ==
  /\ \E f \in passes :
       /\ f.pc \in {"pre", "post"}
       /\ f.timer > 0
       /\ passes' = (passes \ {f}) \cup
            {[f EXCEPT !.timer = @ - 1,
                       !.trace = Append(@, Event("tick", f.sortedQueue[f.idx].id))]}
  /\ UNCHANGED <<queue, isPerforming, executionQueue, finished, callState,
                 callResult, microtasks, chains, regCount, usedIds,
                 admittedIds>>

\* line 153: the preDelay timer fires and the pass goes on to the effect
preDelayElapsed ==
  /\ \E f \in passes :
       /\ f.pc = "pre"
       /\ f.timer = 0
       /\ \E T \in InvokeEffect(Resumed(f)) : Becomes(T)
  /\ UNCHANGED <<regCount, usedIds>>

\* lines 157-170: the awaited promise settles and the pass goes on, with the
\* value stored or the rejection caught
effectSettled(outcome) ==
  /\ \E f \in passes :
       /\ f.pc = "effect"
       /\ \E T \in (IF outcome = "rejected"
                    THEN Catch(Resumed(f), "rejected")
                    ELSE Store(Resumed(f))) : Becomes(T)
  /\ UNCHANGED <<regCount, usedIds>>

\* line 174: the postDelay timer fires and the loop moves to the next item
postDelayElapsed ==
  /\ \E f \in passes :
       /\ f.pc = "post"
       /\ f.timer = 0
       /\ \E T \in RunLoop([Resumed(f) EXCEPT !.frame.idx = @ + 1]) : Becomes(T)
  /\ UNCHANGED <<regCount, usedIds>>

\* lines 123-127: a continuation resumes after `await execute()`: it resolves
\* the deferred caller and returns, which settles the invocation that
\* returned nextExecution() (line 188) one reaction later
runMicrotask ==
  /\ microtasks # <<>>
  /\ LET m == Head(microtasks)
         S == [Cur EXCEPT !.microtasks = Tail(@)]
     IN IF m.kind = "resume"
        THEN LET waiting == {ch \in S.chains : ch.cont = m.inv}
                 T == Settle(S, m.inv, m.value)
             IN Becomes([T EXCEPT
                  !.chains = @ \ waiting,
                  !.microtasks = @ \o
                     (IF waiting = {} THEN <<>>
                      ELSE <<[kind |-> "settle",
                              inv |-> (CHOOSE ch \in waiting : TRUE).waiter,
                              value |-> m.value]>>)])
        ELSE Becomes(Settle(S, m.inv, m.value))
  /\ UNCHANGED <<regCount, usedIds>>

\* the ids a caller may pass next: one in use, or the first one not in use
Usable ==
  usedIds \cup {IdOrder[k] : k \in {Cardinality(usedIds) + 1} \cap 1..Len(IdOrder)}

\* Callers that pass priorities and no delays (the defaults of line 97).
Next ==
  \/ \E id \in Usable, priority \in Prios :
        regCount < MaxRegs /\ orchestrate(id, priority, 0, 0)
  \/ \E id \in Ids : cancel(id)
  \/ \E c \in Calls : execute(c)
  \/ \E outcome \in {"fulfilled", "rejected"} : effectSettled(outcome)
  \/ runMicrotask

Spec == Init /\ [][Next]_vars

\* Effects terminate and the microtask queue is drained; callers are under no
\* obligation to call anything.
FairSpec ==
  /\ Spec
  /\ WF_vars(\E outcome \in {"fulfilled", "rejected"} : effectSettled(outcome))
  /\ WF_vars(runMicrotask)

\* Callers that pass delays and the default priority (line 97).
DelayNext ==
  \/ \E id \in Usable, preDelay \in Delays, postDelay \in Delays :
        regCount < MaxDelayRegs /\ orchestrate(id, 0, preDelay, postDelay)
  \/ \E id \in Ids : cancel(id)
  \/ \E c \in Calls : execute(c)
  \/ Tick
  \/ preDelayElapsed
  \/ \E outcome \in {"fulfilled", "rejected"} : effectSettled(outcome)
  \/ postDelayElapsed
  \/ runMicrotask

DelaySpec == Init /\ [][DelayNext]_vars

\* lines 286-289: the effect of useOrchestRateEffect, run when a component
\* mounts: orchestrate(id, effect, options), then execute() through the
\* provider (line 234), as call c.  The provider's own React state
\* (lines 216, 233, 235) is not part of the model.
useOrchestRateEffect(id, c, preDelay, postDelay) ==
  /\ callState[c] = "unissued"
  /\ \A b \in Calls : b < c => callState[b] # "unissued"
  /\ LET item == [id |-> id,
                  effect |-> regCount + 1,
                  priority |-> 0,
                  preDelay |-> preDelay,
                  postDelay |-> postDelay]
         registered == [Cur EXCEPT
                          !.queue = Append(Delete(queue, Find(queue, id)), item)]
     IN \E T \in Execute(registered, TopLevel(c)) : Becomes(T)
  /\ regCount' = regCount + 1
  /\ usedIds' = usedIds \cup {id}

\* Components that mount one after another, each with an id of its own, and
\* nothing else calling the orchestrator.
HookNext ==
  \/ \E id \in Usable \ usedIds, c \in Calls,
        preDelay \in Delays, postDelay \in Delays :
        regCount < MaxRegs /\ useOrchestRateEffect(id, c, preDelay, postDelay)
  \/ Tick
  \/ preDelayElapsed
  \/ \E outcome \in {"fulfilled", "rejected"} : effectSettled(outcome)
  \/ postDelayElapsed
  \/ runMicrotask

\* Effects terminate, timers fire and the microtask queue is drained.
FairHookSpec ==
  /\ Init /\ [][HookNext]_vars
  /\ WF_vars(Tick)
  /\ WF_vars(preDelayElapsed)
  /\ WF_vars(\E outcome \in {"fulfilled", "rejected"} : effectSettled(outcome))
  /\ WF_vars(postDelayElapsed)
  /\ WF_vars(runMicrotask)

\* ------------------------------------------------------------------ claims
Resolved(c) == callState[c] = "resolved"

\* C1: every execute() call deferred because a pass was running is
\* eventually resolved, given that effects terminate and reactions run.
C1_DeferredCallsResolve ==
  \A c \in Calls : (callState[c] = "deferred") ~> Resolved(c)

\* C2: an execute() call that was admitted resolves with the result map of
\* the pass it started: its keys are the ids stored at its admission.
C2_AdmittedCallGetsItsPass ==
  \A c \in Calls :
    (Resolved(c) /\ admittedIds[c] # {}) => Keys(callResult[c]) = admittedIds[c]

\* every frame there is: the suspended ones and the one that finished last
Frames == passes \cup {finished}
Range(s) == {s[k] : k \in 1..Len(s)}
\* the ids of the effects a pass invoked, in the order of the invocations
RECURSIVE InvokeOrder(_)
InvokeOrder(tr) ==
  IF tr = <<>> THEN <<>>
  ELSE IF Head(tr).ev = "invoke" THEN <<Head(tr).id>> \o InvokeOrder(Tail(tr))
  ELSE InvokeOrder(Tail(tr))
ItemOf(f, id) == CHOOSE it \in Range(f.sortedQueue) : it.id = id

\* C3: at no time are two execute() invocations inside the loop.
C3_OnePassAtATime == Cardinality(passes) <= 1

\* a pass is suspended at an effect while another execute() call is deferred
C3_Witness ==
  /\ \E f \in passes : f.pc = "effect"
  /\ Len(executionQueue) > 0

\* C4: a pass invokes the effects in descending order of priority, and those
\* of equal priority in the order of their orchestrate() calls; once the
\* pass is done it has invoked every item.
C4_InvokedByPriority ==
  \A f \in Frames :
    LET order == InvokeOrder(f.trace) IN
    /\ \A j, k \in 1..Len(order) :
         j < k =>
           LET x == ItemOf(f, order[j])
               y == ItemOf(f, order[k])
           IN \/ x.priority > y.priority
              \/ x.priority = y.priority /\ x.effect < y.effect
    /\ f.pc = "done" => Len(order) = Len(f.sortedQueue)

\* a(1), b(3), c(2) were registered in this order and a pass invoked b, c, a
C4_Witness ==
  /\ finished.pc = "done"
  /\ InvokeOrder(finished.trace) = <<"b", "c", "a">>
  /\ \E x, y, z \in Range(finished.sortedQueue) :
       /\ x.id = "a" /\ x.priority = 1 /\ x.effect = 1
       /\ y.id = "b" /\ y.priority = 3 /\ y.effect = 2
       /\ z.id = "c" /\ z.priority = 2 /\ z.effect = 3

NoDuplicates(q) == \A j, k \in 1..Len(q) : j # k => q[j].id # q[k].id
InvokedIds(f) == Range(InvokeOrder(f.trace))
\* the frame, suspended or finished, of the pass that invocation v started
FrameOf(F, v) == {f \in F : f.runner = v}

\* C5: the store never holds two items with one id; orchestrate() of a
\* stored id puts the new definition in the place of the old one and leaves
\* the other items alone; the pass a call starts runs the items stored at
\* that moment, each id once, and reports each exactly once.
C5_OneItemPerId ==
  /\ [](/\ NoDuplicates(queue)
        /\ \A f \in Frames :
             /\ NoDuplicates(f.sortedQueue)
             /\ NoDuplicates([k \in 1..Len(InvokeOrder(f.trace)) |->
                                [id |-> InvokeOrder(f.trace)[k]]])
             /\ f.pc = "done" =>
                  /\ InvokedIds(f) = StoredIds(f.sortedQueue)
                  /\ Keys(f.results) = StoredIds(f.sortedQueue))
  /\ [][\A id \in Ids, priority \in Prios :
          (regCount' # regCount /\ orchestrate(id, priority, 0, 0)) =>
            /\ {it \in Range(queue') : it.id = id} =
                 {[id |-> id, effect |-> regCount + 1, priority |-> priority,
                   preDelay |-> 0, postDelay |-> 0]}
            /\ {it \in Range(queue') : it.id # id} =
                 {it \in Range(queue) : it.id # id}]_vars
  /\ [][\A c \in Calls :
          (callState[c] = "unissued" /\ callState'[c] \notin {"unissued", "deferred"}
             /\ queue # <<>>) =>
            \E f \in FrameOf(Frames', TopLevel(c)) :
               Range(f.sortedQueue) = Range(queue)]_vars

\* a was registered with priority 1, then with priority 3, and the pass ran
\* the second definition alone
C5_Witness ==
  /\ regCount = 2
  /\ usedIds = {"a"}
  /\ finished.pc = "done"
  /\ finished.sortedQueue = <<[id |-> "a", effect |-> 2, priority |-> 3,
                               preDelay |-> 0, postDelay |-> 0]>>
  /\ Keys(finished.results) = {"a"}
  /\ finished.results["a"] = [value |-> 2]

\* C6: whatever an effect throws or rejects with is stored as {error:
\* message} under its id, a value it returns is stored as it is, every item
\* of the pass is invoked, and no execute() call rejects.
C6_FailuresAreRecorded ==
  /\ \A f \in Frames :
       /\ \A k \in 1..Len(f.trace) :
            LET e == f.trace[k] IN
            /\ e.ev \in {"threw", "rejected"} =>
                 f.results[e.id] = [error |-> ItemOf(f, e.id).effect]
            /\ e.ev = "fulfilled" =>
                 f.results[e.id] = [value |-> ItemOf(f, e.id).effect]
       /\ f.pc = "done" => InvokedIds(f) = StoredIds(f.sortedQueue)
       /\ f.pc \in {"done", "none", "effect", "pre", "post"}
  /\ \A c \in Calls : callState[c] # "rejected"

\* a pass is done in which an effect failed and one invoked after it
\* returned a value
C6_Witness ==
  /\ finished.pc = "done"
  /\ \E j, k \in 1..Len(finished.trace) :
       /\ j < k
       /\ finished.trace[j].ev \in {"threw", "rejected"}
       /\ finished.trace[k].ev = "fulfilled"
       /\ "error" \in DOMAIN finished.results[finished.trace[j].id]
       /\ "value" \in DOMAIN finished.results[finished.trace[k].id]
  /\ \E c \in Calls : Resolved(c) /\ callResult[c] = finished.results

\* C7: cancel(id) of a stored id takes effect, removing the item with that
\* id and no other; a pass invokes and reports the ids stored when it was
\* admitted, and no other id.
C7_CancelledIsNotRun ==
  /\ [][\A id \in Ids :
          (Len(queue') < Len(queue) /\ cancel(id)) =>
            /\ id \notin StoredIds(queue')
            /\ queue' = SelectSeq(queue, LAMBDA it : it.id # id)]_vars
  /\ [](\A id \in StoredIds(queue) : ENABLED <<cancel(id)>>_vars)
  /\ [](\A f \in Frames :
          f.runner.call \in Calls /\ f.runner.depth = 0 =>
            /\ InvokedIds(f) \subseteq admittedIds[f.runner.call]
            /\ Keys(f.results) \subseteq admittedIds[f.runner.call]
            /\ f.pc = "done" =>
                 /\ InvokedIds(f) = admittedIds[f.runner.call]
                 /\ Keys(f.results) = admittedIds[f.runner.call])
  /\ [][\A c \in Calls :
          (callState[c] = "unissued" /\ callState'[c] \notin {"unissued", "deferred"}) =>
            admittedIds'[c] = StoredIds(queue)]_vars

\* a and b were registered, a was cancelled, and the first execute() call
\* ran a pass whose result map holds b only
C7_Witness ==
  /\ regCount = 2
  /\ usedIds = {"a", "b"}
  /\ finished.pc = "done"
  /\ finished.runner = TopLevel(1)
  /\ InvokedIds(finished) = {"b"}
  /\ Resolved(1)
  /\ Keys(callResult[1]) = {"b"}

\* the events of a pass with the three ways an effect completes taken as one
Norm(tr) ==
  [k \in 1..Len(tr) |->
     IF tr[k].ev \in {"threw", "fulfilled", "rejected"}
     THEN Event("completed", tr[k].id) ELSE tr[k]]

Wait(name, ticks, id) ==
  IF ticks = 0 THEN <<>>
  ELSE <<Event(name, id)>> \o [k \in 1..ticks |-> Event("tick", id)]

\* the turn of one item: preDelay wait, invocation, completion, postDelay wait
Turn(it) ==
  Wait("preDelay", it.preDelay, it.id)
    \o <<Event("invoke", it.id), Event("completed", it.id)>>
    \o Wait("postDelay", it.postDelay, it.id)

RECURSIVE Turns(_)
Turns(sq) == IF sq = <<>> THEN <<>> ELSE Turn(Head(sq)) \o Turns(Tail(sq))

IsPrefix(s, t) == Len(s) <= Len(t) /\ s = SubSeq(t, 1, Len(s))

\* C8: the events of a pass are, item after item in run order, the whole
\* preDelay wait, the invocation, the completion and the whole postDelay
\* wait; until the last of them has happened the flag is up, the pass has
\* not finished and the call that started it is not resolved.
C8_DelaysInOrder ==
  /\ \A f \in Frames : IsPrefix(Norm(f.trace), Turns(f.sortedQueue))
  /\ \A f \in passes :
       /\ isPerforming
       /\ f.runner.call \in Calls /\ ~Resolved(f.runner.call)
  /\ finished.pc = "done" => Norm(finished.trace) = Turns(finished.sortedQueue)
  /\ finished.pc \in {"done", "none"}

\* a pass over two items, each with a preDelay and a postDelay, is done
C8_Witness ==
  /\ finished.pc = "done"
  /\ Len(finished.sortedQueue) = 2
  /\ \A k \in 1..2 : /\ finished.sortedQueue[k].preDelay = Delay
                      /\ finished.sortedQueue[k].postDelay = Delay
  /\ Len(finished.trace) = 2 * (4 + 2 * Delay)
  /\ Resolved(finished.runner.call)

\* the step in which call c is made
Issues(c) == callState[c] = "unissued" /\ callState'[c] # "unissued"

\* what a call that returns {} at once does: c is resolved with the empty
\* map and nothing else changes
ReturnsEmpty(c) ==
  /\ callState' = [callState EXCEPT ![c] = "resolved"]
  /\ Keys(callResult'[c]) = {}
  /\ isPerforming' = isPerforming
  /\ UNCHANGED <<queue, executionQueue, passes, finished, microtasks, chains>>

\* C9 as stated: whenever the store is empty, execute() resolves to an empty
\* mapping without delay and without touching the flag.
C9_EmptyStoreReturnsAtOnce ==
  [][\A c \in Calls : (Issues(c) /\ queue = <<>>) => ReturnsEmpty(c)]_vars

\* C9, amended: whenever the store is empty and no pass is running,
\* execute() resolves to an empty mapping without delay: no effect is
\* invoked, nothing is waited for, the flag stays down.
C9_EmptyIdleStoreReturnsAtOnce ==
  [][\A c \in Calls :
       (Issues(c) /\ queue = <<>> /\ ~isPerforming) =>
          ReturnsEmpty(c) /\ ~isPerforming']_vars

\* call 1 ran a pass and resolved with its results; call 2, made after it on
\* the store the pass left empty, is resolved with the empty map
C9_Witness ==
  /\ Resolved(1) /\ Keys(callResult[1]) # {}
  /\ Resolved(2) /\ admittedIds[2] = {} /\ callResult[2] = EmptyResults
  /\ queue = <<>>
  /\ ~isPerforming

\* C10: the flag is up in exactly the states in which an invocation is
\* inside the loop, at a preDelay, an effect or a postDelay.
C10_FlagIffPassRunning ==
  /\ isPerforming <=> passes # {}
  /\ \A f \in passes : f.pc \in {"pre", "effect", "post"}
  /\ isPerforming => finished = NoPass

\* the pass is at the postDelay of its second item and the flag is up
C10_Witness ==
  /\ isPerforming
  /\ \E f \in passes : f.pc = "post" /\ f.idx = 2 /\ f.timer = 0

\* the effect brought by the n-th orchestrate() call is in the store
Stored(n) == \E k \in 1..Len(queue) : queue[k].effect = n

\* a pass has invoked the effect brought by the n-th orchestrate() call
Invoked(n) ==
  \E f \in Frames : \E k \in 1..Len(f.sortedQueue) :
     /\ f.sortedQueue[k].effect = n
     /\ f.sortedQueue[k].id \in InvokedIds(f)

\* C11: an effect registered by useOrchestRateEffect, which requests an
\* execution at once, is eventually invoked, given that effects terminate
\* and timers fire; no id is cancelled or registered twice.
C11_HookEffectIsInvoked ==
  \A n \in 1..MaxRegs : Stored(n) ~> Invoked(n)

\* C12: cancel(id) of an id that is not stored can be called and changes
\* nothing; cancel(id) of a stored id removes that item alone and leaves the
\* other items, the flag, the deferred list and the running pass as they are.
C12_CancelChangesTheStoreOnly ==
  /\ [](\A id \in Ids \ StoredIds(queue) :
          ENABLED cancel(id) /\ ~ENABLED <<cancel(id)>>_vars)
  /\ [][\A id \in Ids :
          (queue' # queue /\ cancel(id)) =>
            /\ id \in StoredIds(queue)
            /\ Len(queue') = Len(queue) - 1
            /\ queue' = SelectSeq(queue, LAMBDA it : it.id # id)
            /\ isPerforming' = isPerforming
            /\ executionQueue' = executionQueue
            /\ passes' = passes]_vars

\* a pass admitted with a and b is running, call 2 is deferred, and a, which
\* only cancel(a) can have removed since, is no longer stored
C12_Witness ==
  /\ isPerforming
  /\ executionQueue = <<TopLevel(2)>>
  /\ StoredIds(queue) = {"b"}
  /\ \E f \in passes : f.runner = TopLevel(1)
                        /\ StoredIds(f.sortedQueue) = {"a", "b"}

\* C13: the deferred list holds the waiting calls oldest first; a call that
\* runs a pass was made before every call waiting in the list; and the chain
\* started by the end of a pass goes on until the list is empty, so once no
\* pass is running and no reaction is pending nobody is left in it.
C13_DeferredServedInOrder ==
  /\ \A j, k \in 1..Len(executionQueue) :
       j < k => executionQueue[j].call < executionQueue[k].call
  /\ \A f \in passes : \A k \in 1..Len(executionQueue) :
       f.runner.call < executionQueue[k].call
  /\ (~isPerforming /\ microtasks = <<>>) => executionQueue = <<>>

\* the result an item leaves in the map: what its own effect returned or
\* failed with
ResultsOf(it) == {[value |-> it.effect], [error |-> it.effect]}

\* C14: once a pass is admitted its items, their order and their
\* definitions do not change, whatever is cancelled or registered while it
\* runs: no step changes the sortedQueue of a pass, and a pass that is done
\* has invoked each of them once and holds the result of each one's own
\* effect.
C14_SnapshotIsFixed ==
  /\ [][\A f \in passes : \A g \in Frames' :
          g.runner = f.runner => g.sortedQueue = f.sortedQueue]_vars
  /\ [][(queue' # queue /\ isPerforming /\ isPerforming') =>
          passes' = passes]_vars
  /\ [](\A f \in Frames :
          /\ \A id \in InvokedIds(f) : id \in StoredIds(f.sortedQueue)
          /\ \A id \in Keys(f.results) :
               f.results[id] \in ResultsOf(ItemOf(f, id))
          /\ f.pc = "done" =>
               /\ InvokeOrder(f.trace) =
                    [k \in 1..Len(f.sortedQueue) |-> f.sortedQueue[k].id]
               /\ Keys(f.results) = StoredIds(f.sortedQueue))

\* a pass admitted with the first definition of a is waiting for its
\* effect while the store holds the second definition of a
C14_Witness ==
  /\ \E f \in passes :
       /\ f.pc = "effect"
       /\ \E it \in Range(f.sortedQueue) : it.id = "a" /\ it.effect = 1
  /\ \E it \in Range(queue) : it.id = "a" /\ it.effect = 2

\* the step in which a pass ends
PassEnds == finished' # finished /\ finished'.pc = "done"

\* C15: the step that ends a pass leaves the store empty; what was stored
\* then and was not in the snapshot of the pass has not been invoked and has
\* no entry of its own in the result map; and while a pass runs, nothing
\* stored outside its snapshot has been invoked.
C15_StoreEmptyAfterPass ==
  /\ [][PassEnds =>
          /\ queue' = <<>>
          /\ \A it \in Range(queue) \ Range(finished'.sortedQueue) :
               /\ ~Invoked(it.effect)'
               /\ it.id \in Keys(finished'.results) =>
                    /\ it.id \in StoredIds(finished'.sortedQueue)
                    /\ finished'.results[it.id] \notin ResultsOf(it)]_vars
  /\ [](\A f \in passes : \A it \in Range(queue) \ Range(f.sortedQueue) :
          ~Invoked(it.effect))
  /\ [](\A f \in Frames : \A it \in Range(f.sortedQueue) :
          f.pc = "done" => it \notin Range(queue))

\* a and b were registered, the pass that is done ran a alone and call 2,
\* made while it ran, was served by its end; the store is empty
C15_Witness ==
  /\ regCount = 2
  /\ usedIds = {"a", "b"}
  /\ finished.pc = "done"
  /\ finished.runner = TopLevel(1)
  /\ StoredIds(finished.sortedQueue) = {"a"}
  /\ Keys(finished.results) = {"a"}
  /\ callState[2] = "resolved" /\ callResult[2] = EmptyResults
  /\ callState[1] = "resolved" /\ callResult[1] = EmptyResults
  /\ queue = <<>>

\* how many times a pass has invoked the effect of id
Invocations(f, id) ==
  Cardinality({k \in 1..Len(f.trace) : f.trace[k] = Event("invoke", id)})

\* the ids whose effect has completed in a pass
CompletedIds(f) ==
  {f.trace[k].id : k \in {j \in 1..Len(f.trace) :
                            f.trace[j].ev \in {"threw", "fulfilled", "rejected"}}}

\* C16: a pass invokes the effect of an id stored at its admission at most
\* once and of any other id never, and its result map holds the ids whose
\* effect has completed; when it is done each id stored at its admission has
\* been invoked exactly once and the keys of the map are exactly those ids.
C16_OneEntryPerAdmittedItem ==
  \A f \in Frames :
    f.runner.call \in Calls =>
      LET admitted == admittedIds[f.runner.call] IN
      /\ f.runner.depth = 0
      /\ \A id \in Ids :
           Invocations(f, id) <= (IF id \in admitted THEN 1 ELSE 0)
      /\ Keys(f.results) = CompletedIds(f)
      /\ f.pc = "done" =>
           /\ \A id \in admitted : Invocations(f, id) = 1
           /\ Keys(f.results) = admitted

\* the pass of call 1, admitted with a and b, is done; one effect returned
\* a value, the other failed, and the map has an entry for each
C16_Witness ==
  /\ finished.pc = "done"
  /\ finished.runner = TopLevel(1)
  /\ admittedIds[1] = {"a", "b"}
  /\ "value" \in DOMAIN finished.results["a"]
  /\ "error" \in DOMAIN finished.results["b"]
  /\ "absent" \in DOMAIN finished.results["c"]

\* C17: the step in which a continuation is taken from the deferred list
\* and invoked ends with the store empty, the flag down and no pass
\* running, and with the empty map on its way to the deferred caller; no
\* re-issued request ever runs a pass; and a call that was not admitted is
\* resolved with the empty map.
C17_ContinuationFindsStoreEmpty ==
  /\ [][Len(executionQueue') < Len(executionQueue) =>
          /\ executionQueue' = Tail(executionQueue)
          /\ queue' = <<>>
          /\ ~isPerforming'
          /\ passes' = {}
          /\ microtasks' = Append(microtasks,
                [kind |-> "resume", inv |-> Head(executionQueue),
                 value |-> EmptyResults])]_vars
  /\ [](\A f \in Frames : f.runner.depth = 0)
  /\ [](\A c \in Calls :
          (Resolved(c) /\ admittedIds[c] = {}) => callResult[c] = EmptyResults)

\* call 2 was deferred during the pass of call 1, its continuation was
\* invoked at the end of that pass, and it is resolved with the empty map
C17_Witness ==
  /\ admittedIds[1] # {}
  /\ callState[1] = "chained"
  /\ finished.pc = "done" /\ finished.runner = TopLevel(1)
  /\ executionQueue = <<>>
  /\ Resolved(2) /\ admittedIds[2] = {} /\ callResult[2] = EmptyResults
  /\ queue = <<>> /\ ~isPerforming

\* the items of q whose priority is p, in the order of q
OfPriority(q, p) == SelectSeq(q, LAMBDA it : it.priority = p)

\* C18: an orchestrate() call puts its item behind every item stored, the
\* others keeping their order, whether its id was stored or not; so the
\* store is in the order of the latest registrations, and a pass takes over
\* that order among the items of one priority and invokes them in it.
C18_ReRegisteredGoesLast ==
  /\ [][regCount' # regCount =>
          /\ Len(queue') > 0
          /\ queue'[Len(queue')].effect = regCount'
          /\ SubSeq(queue', 1, Len(queue') - 1) =
               SelectSeq(queue, LAMBDA it : it.id # queue'[Len(queue')].id)]_vars
  /\ [](\A j, k \in 1..Len(queue) : j < k => queue[j].effect < queue[k].effect)
  /\ [][\A c \in Calls :
          (callState[c] = "unissued" /\ callState'[c] \notin {"unissued", "deferred"}) =>
            \A f \in FrameOf(Frames', TopLevel(c)) : \A p \in Prios :
               OfPriority(f.sortedQueue, p) = OfPriority(queue, p)]_vars
  /\ [](\A f \in Frames :
          IsPrefix(InvokeOrder(f.trace),
                   [k \in 1..Len(f.sortedQueue) |-> f.sortedQueue[k].id]))

\* a, then b, then a again were registered with one priority, and the pass
\* invoked b before a
C18_Witness ==
  /\ regCount = 3
  /\ usedIds = {"a", "b"}
  /\ finished.pc = "done"
  /\ InvokeOrder(finished.trace) = <<"b", "a">>
  /\ \E x, y \in Range(finished.sortedQueue) :
       /\ x.id = "a" /\ x.effect = 3
       /\ y.id = "b" /\ y.effect = 2
       /\ x.priority = y.priority

====
